---------------------------- MODULE Spec2Model ----------------------------
(***************************************************************************)
(* A model of ldap2pg's SyncManager (src/ldap2pg/manager.py).              *)
(*                                                                         *)
(* Three specifications share this module:                                 *)
(*   SpecQuery    query_ldap: the directory fetch and the join resolver    *)
(*   SpecInspect  inspect_ldap: the rule engines and the aggregation fold  *)
(*   Spec         sync: the reconciliation orchestrator                    *)
(* Each keeps the variables of the other two at their idle values.         *)
(***************************************************************************)
EXTENDS Integers, Sequences, FiniteSets, TLC

VARIABLES
    \* ---- query_ldap -----------------------------------------------------
    q_pc,               \* "idle" | "start" | "loop" | "done" | "UserError"
    ldap_raw,           \* what search_s answers for the mapping's query
    ldap_nested,        \* what search_s answers for a nested search, per base
    joins,              \* the join configured for attribute member
    entries,            \* query_ldap's local entries (its return value)
    q_pos,              \* [e, a, i]: entry, attribute and value being resolved
    values_with_attrs,  \* the list being rebuilt for the current attribute
    sub_attrs_cache,    \* set of <<key, sub_attrs>>, key = <<attr, value>>
    searches,           \* the nested searches issued so far, in order
    q_warnings,         \* the values logger.warning was called for, in order
    q_calls,            \* number of calls of query_ldap, this one included
    \* ---- inspect_ldap ---------------------------------------------------
    i_pc,               \* "idle" | "mapping" | "rule" | "entry" | "done"
                        \*   | "UserError" | "TypeError"
    i_m,                \* number of mappings of the syncmap entered so far
    i_ldap,             \* 'ldap' in mapping, for the current mapping
    i_entries,          \* the entries of the current mapping
    i_r,                \* number of role rules of the mapping entered so far
    rule,               \* the role rule being applied
    i_e,                \* index in i_entries of the entry to process
    ldaproles,          \* inspect_ldap's dict of roles, as a set of roles
    roleset,            \* the RoleSet inspect_ldap returns
    declared,           \* the roles apply_role_rules yielded, in order
    i_warnings,         \* number of calls of logger.warning
    i_error,            \* the role or entry the raised UserError names
    with_grants,        \* the mappings of the syncmap carry grant rules
    grant,              \* mapping.get('grant', []) of the current mapping
    i_g,                \* number of grant rules of the mapping entered so far
    grule,              \* the grant rule being applied
    ldapacl,            \* inspect_ldap's Acl, as a set of grants
    granted,            \* the grants yielded for the current rule and entry
    \* ---- sync -----------------------------------------------------------
    pc,                 \* the next operation of sync, "done" or "UserError"
    run,                \* the number of the current call of sync
    dry,                \* psql.dry, for the current call
    privileges,         \* self.privileges: the configured privileges
    inspect_answer,     \* what inspect_ldap returns for the syncmap
    cluster,            \* the roles of the Postgres cluster
    cluster_acl,        \* the grants of the Postgres cluster
    roles_blacklist,    \* inspector.roles_blacklist
    super_columns,      \* FALSE once RoleOptions.filter_super_columns ran
    pgallroles,         \* locals of sync
    pgmanagedroles,
    s_ldaproles,
    s_ldapacl,
    schemas,
    pgacl,
    count,
    role_count,         \* count after the first run_queries
    trace,              \* the calls sync made in the current run, in order
    executed,           \* the statements the runner executed in this run
    failed_at,          \* the call that raised, or "none"
    converged,          \* the cluster matched the desired state at start
    report,             \* what sync logged before returning
    role_args           \* the roles given to fetch_schemas and fetch_grants

q_vars == <<q_pc, ldap_raw, ldap_nested, joins, entries, q_pos,
            values_with_attrs, sub_attrs_cache, searches, q_warnings,
            q_calls>>

\* The variables of the grant rules and of the aggregation of grants.
g_vars == <<with_grants, grant, i_g, grule, ldapacl, granted>>

i_vars == <<i_pc, i_m, i_ldap, i_entries, i_r, rule, i_e, ldaproles, roleset,
            declared, i_warnings, i_error, g_vars>>

s_vars == <<pc, run, dry, privileges, inspect_answer, cluster, cluster_acl,
            roles_blacklist, super_columns, pgallroles, pgmanagedroles,
            s_ldaproles, s_ldapacl, schemas, pgacl, count, role_count, trace,
            executed, failed_at, converged, report, role_args>>

vars == <<q_vars, i_vars, s_vars>>

\* What each specification leaves alone.
q_others == <<i_vars, s_vars>>

i_others == <<q_vars, s_vars>>

s_others == <<q_vars, i_vars>>

-----------------------------------------------------------------------------
(* Generic helpers *)

Range(s) == {s[k] : k \in 1..Len(s)}

SeqsUpTo(S, n) == UNION {[1..k -> S] : k \in 0..n}

\* Number of positions of sequence s that hold x.
Occurrences(s, x) == Cardinality({k \in 1..Len(s) : s[k] = x})

\* A Python dict as a set of <<key, value>> pairs, one pair per key.
DictKeys(d) == {p[1] : p \in d}

DictGet(d, k) == (CHOOSE p \in d : p[1] = k)[2]

\* dict.update(u) and d[k] = v: the pairs of u replace those of d on their keys.
DictUpdate(d, u) == {p \in d : p[1] \notin DictKeys(u)} \cup u

-----------------------------------------------------------------------------
(* The directory, as seen through ldapconn.search_s *)

\* Bound: the number of raw entries the mapping's search returns.
MaxEntries == 2

\* The values attribute member may hold: the DNs of two other entries.
Values == {"cn=v1", "cn=v2"}

\* The member attribute of one raw entry.
MemberChoices ==
    {<<>>, <<"cn=v1">>, <<"cn=v1", "cn=v1">>, <<"cn=v1", "cn=v2">>,
     <<"cn=v2", "cn=v1">>}

\* A raw entry: a DN (empty for a referral) and its attributes.
RawEntries == [dn : {"", "cn=e"}, member : MemberChoices]

\* The attributes a nested search returns for the entry of DN v.
CnOf(v) == IF v = "cn=v1" THEN "v1" ELSE "v2"

\* The calls of query_ldap that are followed.
MaxCalls == 2

\* The answer of a later search: one entry that holds both values.
BothValues == <<[dn |-> "cn=e", member |-> <<"cn=v2", "cn=v1">>]>>

\* The answer of a nested search of base v: an error, or raw entries.
NestedAnswers == {"ok", "empty", "fail"}

\* The join of attribute member: none, one with attributes to fetch, or one
\* with an empty attribute list.
JoinChoices == {"nojoin", "attrs", "noattrs"}

\* The attributes of an entry, in the order entry[1].items() yields them.
AttrOrder == <<"dn", "member">>

-----------------------------------------------------------------------------
(* _query_ldap, lines 34-59 *)

\* Mutant of DecodeEntries: referrals are kept.
DecodeEntries_KeepsReferrals(raw) ==
    [k \in 1..Len(raw) |->
        [dn |-> raw[k].dn,
         attrs |-> [dn |-> <<raw[k].dn>>, member |-> raw[k].member]]]

\* Lines 45-57: referrals (empty DN) are discarded, attributes['dn'] = [dn]
\* is added; the values are still bare strings.
RECURSIVE DecodeEntries(_)
DecodeEntries(raw) ==
    IF raw = <<>> THEN <<>>
    ELSE LET head == raw[1]
             rest == DecodeEntries(Tail(raw))
         IN  IF head.dn = ""
             THEN rest
             ELSE <<[dn |-> head.dn,
                     attrs |-> [dn |-> <<head.dn>>, member |-> head.member]]>>
                  \o rest

\* The raw entries search_s returns for a nested search of base v that does
\* not fail.
NestedRaw(v) ==
    IF ldap_nested[v] = "ok"
    THEN <<[dn |-> v, cn |-> CnOf(v)], [dn |-> "cn=sub", cn |-> "sub"]>>
    ELSE <<>>

\* join_values[0][1]: the decoded attributes of the first nested entry.
NestedAttrs(raw_entry) ==
    {<<"dn", <<raw_entry.dn>>>>, <<"cn", <<raw_entry.cn>>>>}

-----------------------------------------------------------------------------
(* The idle values of the variables of inspect_ldap *)

NoRule == [none |-> TRUE]

InspectIdle ==
    /\ i_pc = "idle"
    /\ i_m = 0
    /\ i_ldap = FALSE
    /\ i_entries = <<>>
    /\ i_r = 0
    /\ rule = NoRule
    /\ i_e = 0
    /\ ldaproles = {}
    /\ roleset = {}
    /\ declared = <<>>
    /\ i_warnings = 0
    /\ i_error = <<>>
    /\ with_grants = FALSE
    /\ grant = <<>>
    /\ i_g = 0
    /\ grule = NoRule
    /\ ldapacl = {}
    /\ granted = <<>>

-----------------------------------------------------------------------------
(* The idle values of the variables of sync *)

SyncIdle ==
    /\ pc = "idle"
    /\ run = 0
    /\ dry = FALSE
    /\ privileges = {}
    /\ inspect_answer = [roles |-> {}, acl |-> {}]
    /\ cluster = {}
    /\ cluster_acl = {}
    /\ roles_blacklist = <<>>
    /\ super_columns = TRUE
    /\ pgallroles = {}
    /\ pgmanagedroles = {}
    /\ s_ldaproles = {}
    /\ s_ldapacl = {}
    /\ schemas = {}
    /\ pgacl = {}
    /\ count = 0
    /\ role_count = 0
    /\ trace = <<>>
    /\ executed = <<>>
    /\ failed_at = "none"
    /\ converged = FALSE
    /\ report = "none"
    /\ role_args = [schemas |-> {}, grants |-> {}]

-----------------------------------------------------------------------------
(* query_ldap, lines 61-96 *)

QueryInit ==
    /\ q_pc = "start"
    /\ ldap_raw \in SeqsUpTo(RawEntries, MaxEntries)
    /\ joins \in JoinChoices
    /\ ldap_nested \in IF joins = "attrs"
                       THEN [Values -> NestedAnswers]
                       ELSE {[v \in Values |-> "ok"]}
    /\ entries = <<>>
    /\ q_pos = [e |-> 0, a |-> 0, i |-> 0]
    /\ values_with_attrs = <<>>
    /\ sub_attrs_cache = {}
    /\ searches = <<>>
    /\ q_warnings = <<>>
    /\ q_calls = 1
    /\ InspectIdle
    /\ SyncIdle

QueryIdle ==
    /\ q_pc = "idle"
    /\ ldap_raw = <<>>
    /\ joins = "nojoin"
    /\ ldap_nested = [v \in Values |-> "ok"]
    /\ entries = <<>>
    /\ q_pos = [e |-> 0, a |-> 0, i |-> 0]
    /\ values_with_attrs = <<>>
    /\ sub_attrs_cache = {}
    /\ searches = <<>>
    /\ q_warnings = <<>>
    /\ q_calls = 0

\* Line 62, the search succeeds: entries are decoded, the cache starts empty.
QuerySearchOk ==
    /\ q_pc = "start"
    /\ entries' = DecodeEntries(ldap_raw)
    /\ q_pos' = [e |-> 1, a |-> 1, i |-> 1]
    /\ q_pc' = "loop"
    /\ UNCHANGED q_others
    /\ UNCHANGED q_calls
    /\ UNCHANGED <<ldap_raw, ldap_nested, joins, values_with_attrs,
                   sub_attrs_cache, searches, q_warnings>>

\* Line 62, lines 39-41: the search fails and the UserError propagates.
QuerySearchFails ==
    /\ q_pc = "start"
    /\ q_pc' = "UserError"
    /\ UNCHANGED q_others
    /\ UNCHANGED q_calls
    /\ UNCHANGED <<ldap_raw, ldap_nested, joins, entries, q_pos,
                   values_with_attrs, sub_attrs_cache, searches, q_warnings>>

InLoop == q_pc = "loop" /\ q_pos.e <= Len(entries)

CurAttr == AttrOrder[q_pos.a]

CurValues == entries[q_pos.e].attrs[CurAttr]

HasValue == InLoop /\ q_pos.i <= Len(CurValues)

CurValue == CurValues[q_pos.i]

\* joins.get(attr): only attribute member may carry a join.
JoinOf(attr) == IF attr = "member" THEN joins ELSE "nojoin"

CacheKey == <<CurAttr, CurValue>>

\* sub_attrs_cache.get((attr, value)) is truthy.
CacheHit == CacheKey \in DictKeys(sub_attrs_cache)

NextValue == q_pos' = [q_pos EXCEPT !.i = @ + 1]

\* Lines 68-71: no join for the attribute.
ResolveNoJoin ==
    /\ HasValue
    /\ JoinOf(CurAttr) = "nojoin"
    /\ values_with_attrs' = Append(values_with_attrs, <<CurValue, {}>>)
    /\ NextValue
    /\ UNCHANGED q_others
    /\ UNCHANGED q_calls
    /\ UNCHANGED <<q_pc, ldap_raw, ldap_nested, joins, entries,
                   sub_attrs_cache, searches, q_warnings>>

\* Lines 73-76: the pair is cached, a copy of the cached mapping is used.
ResolveCacheHit ==
    /\ HasValue
    /\ JoinOf(CurAttr) # "nojoin"
    /\ CacheHit
    /\ values_with_attrs' =
           Append(values_with_attrs,
                  <<CurValue, DictGet(sub_attrs_cache, CacheKey)>>)
    /\ NextValue
    /\ UNCHANGED q_others
    /\ UNCHANGED q_calls
    /\ UNCHANGED <<q_pc, ldap_raw, ldap_nested, joins, entries,
                   sub_attrs_cache, searches, q_warnings>>

\* Mutant of ResolveShortCircuit: the value is paired with an empty mapping.
ResolveShortCircuit_Empty ==
    /\ HasValue
    /\ JoinOf(CurAttr) = "noattrs"
    /\ ~CacheHit
    /\ values_with_attrs' = Append(values_with_attrs, <<CurValue, {}>>)
    /\ sub_attrs_cache' = DictUpdate(sub_attrs_cache, {<<CacheKey, {}>>})
    /\ NextValue
    /\ UNCHANGED q_others
    /\ UNCHANGED q_calls
    /\ UNCHANGED <<q_pc, ldap_raw, ldap_nested, joins, entries,
                   searches, q_warnings>>

\* Lines 78-83: the join has no attributes to fetch.
ResolveShortCircuit ==
    /\ HasValue
    /\ JoinOf(CurAttr) = "noattrs"
    /\ ~CacheHit
    /\ LET sub_attrs == {<<"dn", <<CurValue>>>>}
       IN  /\ values_with_attrs' =
                  Append(values_with_attrs, <<CurValue, sub_attrs>>)
           /\ sub_attrs_cache' =
                  DictUpdate(sub_attrs_cache, {<<CacheKey, sub_attrs>>})
    /\ NextValue
    /\ UNCHANGED q_others
    /\ UNCHANGED q_calls
    /\ UNCHANGED <<q_pc, ldap_raw, ldap_nested, joins, entries,
                   searches, q_warnings>>

\* Lines 85-91: the nested search answers; its first entry, if any, is
\* merged into sub_attrs, appended and cached.
ResolveNestedAnswers ==
    /\ HasValue
    /\ JoinOf(CurAttr) = "attrs"
    /\ ~CacheHit
    /\ ldap_nested[CurValue] # "fail"
    /\ searches' = Append(searches, CacheKey)
    /\ LET join_values == NestedRaw(CurValue)
       IN  IF join_values # <<>>
           THEN LET sub_attrs ==
                        DictUpdate({<<"dn", <<CurValue>>>>},
                                   NestedAttrs(join_values[1]))
                IN  /\ values_with_attrs' =
                           Append(values_with_attrs, <<CurValue, sub_attrs>>)
                    /\ sub_attrs_cache' =
                           DictUpdate(sub_attrs_cache,
                                      {<<CacheKey, sub_attrs>>})
           ELSE UNCHANGED <<values_with_attrs, sub_attrs_cache>>
    /\ NextValue
    /\ UNCHANGED q_others
    /\ UNCHANGED q_calls
    /\ UNCHANGED <<q_pc, ldap_raw, ldap_nested, joins, entries, q_warnings>>

\* Mutant of ResolveNestedFails: the UserError of the nested search is not
\* caught and ends query_ldap.
ResolveNestedFails_Propagates ==
    /\ HasValue
    /\ JoinOf(CurAttr) = "attrs"
    /\ ~CacheHit
    /\ ldap_nested[CurValue] = "fail"
    /\ searches' = Append(searches, CacheKey)
    /\ q_pc' = "UserError"
    /\ UNCHANGED q_others
    /\ UNCHANGED q_calls
    /\ UNCHANGED <<ldap_raw, ldap_nested, joins, entries, q_pos,
                   values_with_attrs, sub_attrs_cache, q_warnings>>

\* Lines 85-87, 92-93: the nested search fails; the UserError is caught and
\* logged, nothing is appended and nothing is cached.
ResolveNestedFails ==
    /\ HasValue
    /\ JoinOf(CurAttr) = "attrs"
    /\ ~CacheHit
    /\ ldap_nested[CurValue] = "fail"
    /\ searches' = Append(searches, CacheKey)
    /\ q_warnings' = Append(q_warnings, CurValue)
    /\ NextValue
    /\ UNCHANGED q_others
    /\ UNCHANGED q_calls
    /\ UNCHANGED <<q_pc, ldap_raw, ldap_nested, joins, entries,
                   values_with_attrs, sub_attrs_cache>>

\* Line 95: entry[1][attr] = values_with_attrs, then the next attribute or
\* the next entry.
StoreAttr ==
    /\ InLoop
    /\ q_pos.i > Len(CurValues)
    /\ entries' = [entries EXCEPT ![q_pos.e].attrs[CurAttr] = values_with_attrs]
    /\ values_with_attrs' = <<>>
    /\ q_pos' = IF q_pos.a < Len(AttrOrder)
                THEN [e |-> q_pos.e, a |-> q_pos.a + 1, i |-> 1]
                ELSE [e |-> q_pos.e + 1, a |-> 1, i |-> 1]
    /\ UNCHANGED q_others
    /\ UNCHANGED q_calls
    /\ UNCHANGED <<q_pc, ldap_raw, ldap_nested, joins, sub_attrs_cache,
                   searches, q_warnings>>

\* Line 96: return entries.
QueryReturn ==
    /\ q_pc = "loop"
    /\ q_pos.e > Len(entries)
    /\ q_pc' = "done"
    /\ UNCHANGED q_others
    /\ UNCHANGED q_calls
    /\ UNCHANGED <<ldap_raw, ldap_nested, joins, entries, q_pos,
                   values_with_attrs, sub_attrs_cache, searches, q_warnings>>

\* Mutant of QueryAgain: the join cache outlives the call.
QueryAgain_KeepsCache ==
    /\ q_pc = "done"
    /\ q_calls < MaxCalls
    /\ q_calls' = q_calls + 1
    /\ q_pc' = "start"
    /\ ldap_raw' \in {ldap_raw, BothValues}
    /\ joins' \in JoinChoices
    /\ ldap_nested' = ldap_nested
    /\ entries' = <<>>
    /\ q_pos' = [e |-> 0, a |-> 0, i |-> 0]
    /\ values_with_attrs' = <<>>
    /\ sub_attrs_cache' = sub_attrs_cache
    /\ searches' = <<>>
    /\ q_warnings' = <<>>
    /\ UNCHANGED q_others

\* Lines 61-63, called again from line 192 for the next mapping that has a
\* directory query, against the same directory: the search answers as it
\* did or with BothValues, the join is that of the mapping and the locals of
\* the call, the join cache among them, are new; searches and q_warnings log
\* the current call.
QueryAgain ==
    /\ q_pc = "done"
    /\ q_calls < MaxCalls
    /\ q_calls' = q_calls + 1
    /\ q_pc' = "start"
    /\ ldap_raw' \in {ldap_raw, BothValues}
    /\ joins' \in JoinChoices
    /\ ldap_nested' = ldap_nested
    /\ entries' = <<>>
    /\ q_pos' = [e |-> 0, a |-> 0, i |-> 0]
    /\ values_with_attrs' = <<>>
    /\ sub_attrs_cache' = {}
    /\ searches' = <<>>
    /\ q_warnings' = <<>>
    /\ UNCHANGED q_others

QueryNext ==
    \/ QuerySearchOk
    \/ QuerySearchFails
    \/ ResolveNoJoin
    \/ ResolveCacheHit
    \/ ResolveShortCircuit
    \/ ResolveNestedAnswers
    \/ ResolveNestedFails
    \/ StoreAttr
    \/ QueryReturn
    \/ QueryAgain

SpecQuery == QueryInit /\ [][QueryNext]_vars

-----------------------------------------------------------------------------
(* Names. A string that is lower-cased or matched is a tuple of characters *)

LowerChar(c) ==
    CASE c = "A" -> "a"
      [] c = "B" -> "b"
      [] c = "R" -> "r"
      [] c = "W" -> "w"
      [] OTHER -> c

\* str.lower()
Lower(str) == [k \in 1..Len(str) |-> LowerChar(str[k])]

-----------------------------------------------------------------------------
(* fnmatch (imported line 3) and match (ldap2pg.utils) *)

\* fnmatch.fnmatch on a name and a pattern of literals, '?' and '*'.
RECURSIVE fnmatch(_, _)
fnmatch(name, pat) ==
    IF pat = <<>> THEN name = <<>>
    ELSE IF pat[1] = "*"
    THEN \/ fnmatch(name, Tail(pat))
         \/ name # <<>> /\ fnmatch(Tail(name), pat)
    ELSE /\ name # <<>>
         /\ pat[1] = "?" \/ pat[1] = name[1]
         /\ fnmatch(Tail(name), Tail(pat))

\* match(string, patterns): some pattern of the list matches.
match(string, patterns) ==
    \E k \in 1..Len(patterns) : fnmatch(string, patterns[k])

-----------------------------------------------------------------------------
(* Entries and rules given to the rule engines *)

\* Bound: the number of mappings of the syncmap.
MaxMappings == 2

\* Bound: the number of role rules of one mapping.
MaxRules == 2

\* Bound: the number of roles after which no further rule is entered.
MaxDecls == 3

\* The synthetic entry of a mapping without a directory query (None).
NoneEntry == [none |-> TRUE, dn |-> "", cn |-> <<>>, member |-> <<>>]

\* Entries as query_ldap returns them. A member value is a DN, given by the
\* type and the value of its first RDN.
Entry1 ==
    [none |-> FALSE, dn |-> "cn=e1", cn |-> <<<<"R", "d">>>>,
     member |-> <<[rdn |-> "cn", name |-> <<"A">>]>>]

Entry2 ==
    [none |-> FALSE, dn |-> "cn=e2", cn |-> <<<<"w", "r">>>>,
     member |-> <<[rdn |-> "cn", name |-> <<"b">>],
                  [rdn |-> "uid", name |-> <<"x">>]>>]

EntryListChoices == {<<>>, <<Entry1>>, <<Entry2>>, <<Entry2, Entry1>>}

\* Templates: static text, {cn}, {member.cn}, and a malformed one.
Static(text) == [k |-> "static", v |-> text]

AttrCn == [k |-> "cn", v |-> <<>>]

MemberCn == [k |-> "member.cn", v |-> <<>>]

Malformed == [k |-> "malformed", v |-> <<>>]

\* Role options: a dict, as a set of <<key, value>> pairs.
NoOptions == {}

LoginOption == {<<"LOGIN", TRUE>>}

\* The values of on_unexpected_dn; "absent" stands for a rule without the key.
Policies == {"absent", "ignore", "warn", "fail", "abort"}

RoleRule(names, members, parents, options, comment, policy) ==
    [names |-> names, members |-> members, parents |-> parents,
     options |-> options, comment |-> comment, on_unexpected_dn |-> policy]

\* Rules whose templates are static: the only ones a mapping without a
\* directory query may carry.
StaticRuleChoices ==
    {RoleRule(<<Static(<<"R", "d">>)>>, <<Static(<<"A">>)>>, <<>>,
              NoOptions, "None", "absent"),
     RoleRule(<<Static(<<"r", "d">>)>>, <<Static(<<"b">>)>>,
              <<Static(<<"w", "r">>)>>, NoOptions, "c1", "absent"),
     RoleRule(<<Static(<<"r", "d">>)>>, <<>>, <<>>,
              LoginOption, "None", "warn"),
     RoleRule(<<Static(<<"r", "d">>)>>, <<>>, <<>>,
              NoOptions, "c2", "ignore"),
     RoleRule(<<Static(<<"w", "r">>), Malformed>>, <<>>, <<>>,
              NoOptions, "None", "ignore")}

\* Rules that read the entry: one role per cn with the members of the entry,
\* and one role per member.
LdapRuleChoices ==
    {RoleRule(<<AttrCn>>, <<MemberCn>>, <<>>, NoOptions, "None", policy) :
        policy \in Policies}
    \cup
    {RoleRule(<<MemberCn>>, <<>>, <<>>, NoOptions, "None", policy) :
        policy \in Policies}

RuleChoices == StaticRuleChoices \cup LdapRuleChoices

\* The role rules of a mapping that also carries grant rules: none, or one
\* of these.
RuleChoicesWithGrants ==
    {RoleRule(<<Static(<<"R", "d">>)>>, <<Static(<<"A">>)>>, <<>>,
              NoOptions, "None", "absent"),
     RoleRule(<<Static(<<"w", "r">>), Malformed>>, <<>>, <<>>,
              NoOptions, "None", "ignore")}

\* Role names and a glob pattern for the grant rules.
AppRo == <<"A", "p", "p", "_", "r", "o">>

Admin == <<"a", "d", "m", "i", "n">>

AppPattern == <<"a", "p", "p", "_", "*">>

\* The value '__all__' of databases; a list of names otherwise.
AllWildcard == <<"__all__">>

GrantRule(privilege, databases, schema_list, roles, role_match) ==
    [privilege |-> privilege, databases |-> databases,
     schemas |-> schema_list, roles |-> roles, role_match |-> role_match]

\* Grant rules whose roles are static.
StaticGrantA ==
    GrantRule("ro", AllWildcard, "__all__", <<Static(AppRo), Static(Admin)>>,
              AppPattern)

StaticGrantB ==
    GrantRule("ro", <<"db">>, "__any__", <<Static(Admin), Static(AppRo)>>,
              "None")

StaticGrantC ==
    GrantRule("rw", AllWildcard, "None", <<Static(Admin), Malformed>>, "None")

\* Grant rules that read the entry.
LdapGrantD == GrantRule("ro", AllWildcard, "__all__", <<MemberCn>>, "None")

LdapGrantE ==
    GrantRule("rw", AllWildcard, "__all__", <<MemberCn, AttrCn>>, <<"r", "*">>)

\* mapping.get('grant', []) for a mapping without a directory query.
StaticGrantLists ==
    {<<>>, <<StaticGrantA>>, <<StaticGrantA, StaticGrantB>>,
     <<StaticGrantB, StaticGrantA>>, <<StaticGrantC, StaticGrantA>>}

\* mapping.get('grant', []) for a mapping with a directory query.
GrantLists ==
    StaticGrantLists
    \cup {<<LdapGrantD>>, <<LdapGrantE, StaticGrantA>>, <<LdapGrantE, LdapGrantD>>}

-----------------------------------------------------------------------------
(* expand_attributes (ldap2pg.ldap) *)

NoError(vals) == [vals |-> vals, err |-> "none"]

\* The names {member.cn} yields: those of the members up to the first one
\* whose DN does not start with cn, where RDNError is raised.
RECURSIVE MemberNames(_)
MemberNames(members) ==
    IF members = <<>> THEN NoError(<<>>)
    ELSE IF members[1].rdn # "cn" THEN [vals |-> <<>>, err |-> "RDNError"]
    ELSE LET rest == MemberNames(Tail(members))
         IN  [vals |-> <<members[1].name>> \o rest.vals, err |-> rest.err]

ExpandOne(entry, template) ==
    CASE template.k = "static"    -> NoError(<<template.v>>)
      [] template.k = "malformed" -> [vals |-> <<>>, err |-> "ValueError"]
      [] template.k = "cn"        -> NoError(entry.cn)
      [] template.k = "member.cn" -> MemberNames(entry.member)

\* The values the generator yields before it raises err (or ends).
RECURSIVE expand_attributes(_, _)
expand_attributes(entry, formats) ==
    IF formats = <<>> THEN NoError(<<>>)
    ELSE LET head == ExpandOne(entry, formats[1])
         IN  IF head.err # "none" THEN head
             ELSE LET rest == expand_attributes(entry, Tail(formats))
                  IN  [vals |-> head.vals \o rest.vals, err |-> rest.err]

-----------------------------------------------------------------------------
(* process_ldap_entry, lines 98-131 *)

LowerSet(vals) == {Lower(vals[k]) : k \in 1..Len(vals)}

\* The roles the generator yields for one entry and one rule, and the error
\* that ends it, if any. Members and parents are expanded before the first
\* role is yielded (lines 99-106), names while the roles are (line 111).
process_ldap_entry(entry, kw) ==
    LET members == expand_attributes(entry, kw.members)
        parents == expand_attributes(entry, kw.parents)
        names == expand_attributes(entry, kw.names)
    IN  IF members.err # "none" THEN [roles |-> <<>>, err |-> members.err]
        ELSE IF parents.err # "none" THEN [roles |-> <<>>, err |-> parents.err]
        ELSE [roles |->
                [k \in 1..Len(names.vals) |->
                    [name |-> Lower(names.vals[k]),
                     members |-> LowerSet(members.vals),
                     parents |-> LowerSet(parents.vals),
                     options |-> kw.options,
                     comment |-> kw.comment]],
              err |-> names.err]

-----------------------------------------------------------------------------
(* Role.merge (ldap2pg.role) *)

\* merge raises ValueError: the options are not structurally equal.
MergeFails(self, other) == self.options # other.options

\* self after self.merge(other): members and parents are united, the comment
\* is inherited from other when self defines none.
Merge(self, other) ==
    [name |-> self.name,
     members |-> self.members \cup other.members,
     parents |-> self.parents \cup other.parents,
     options |-> self.options,
     comment |-> IF self.comment # "None" THEN self.comment
                 ELSE other.comment]

\* RoleOptions.fill_with_defaults
DefaultOptions == {<<"LOGIN", FALSE>>}

FillWithDefaults(role) ==
    [role EXCEPT !.options = DictUpdate(DefaultOptions, @)]

-----------------------------------------------------------------------------
(* inspect_ldap, lines 183-220, and apply_role_rules, lines 133-150 *)

\* `role in ldaproles`, ldaproles[role]: roles are keyed by name.
Known(roles, role) == \E old \in roles : old.name = role.name

Lookup(roles, role) == CHOOSE old \in roles : old.name = role.name

\* Mutant of FoldRole: the new role replaces the old one without merging it.
FoldRole_Overwrite(roles, role) ==
    {old \in roles : old.name # role.name} \cup {role}

\* Lines 199-206 for a role that does not conflict: the new role merges the
\* one already held, and takes its place.
FoldRole(roles, role) ==
    IF Known(roles, role)
    THEN {old \in roles : old.name # role.name}
         \cup {Merge(role, Lookup(roles, role))}
    ELSE roles \cup {role}

\* Lines 199-205: the merge of the new role with the one held raises.
Conflicts(roles, role) ==
    Known(roles, role) /\ MergeFails(role, Lookup(roles, role))

\* Lines 198-206 over the roles one entry yields: [roles, yielded, conflict],
\* the dict, the roles taken from the generator, and whether the last of
\* them raised the conflict.
RECURSIVE FoldRoles(_, _)
FoldRoles(roles, yielded) ==
    IF yielded = <<>>
    THEN [roles |-> roles, yielded |-> <<>>, conflict |-> FALSE]
    ELSE IF Conflicts(roles, yielded[1])
    THEN [roles |-> roles, yielded |-> <<yielded[1]>>, conflict |-> TRUE]
    ELSE LET rest == FoldRoles(FoldRole(roles, yielded[1]), Tail(yielded))
         IN  [rest EXCEPT !.yielded = <<yielded[1]>> \o @]

\* Mutant of EffectivePolicy: a rule without the key is handled as 'warn'.
EffectivePolicy_DefaultWarn(r) ==
    IF r.on_unexpected_dn = "absent" THEN "warn" ELSE r.on_unexpected_dn

\* rule.get('on_unexpected_dn', 'fail'), line 135
EffectivePolicy(r) ==
    IF r.on_unexpected_dn = "absent" THEN "fail" ELSE r.on_unexpected_dn

InspectInit ==
    /\ i_pc = "mapping"
    /\ i_m = 0
    /\ i_ldap = FALSE
    /\ i_entries = <<>>
    /\ i_r = 0
    /\ rule = NoRule
    /\ i_e = 0
    /\ ldaproles = {}
    /\ roleset = {}
    /\ declared = <<>>
    /\ i_warnings = 0
    /\ i_error = <<>>
    /\ with_grants \in BOOLEAN
    /\ grant = <<>>
    /\ i_g = 0
    /\ grule = NoRule
    /\ ldapacl = {}
    /\ granted = <<>>
    /\ QueryIdle
    /\ SyncIdle

\* Lines 186-193: the mapping has a directory query, which answers.
MappingWithLdap ==
    /\ i_pc = "mapping"
    /\ i_m < MaxMappings
    /\ \E answer \in EntryListChoices : i_entries' = answer
    /\ i_ldap' = TRUE
    /\ i_m' = i_m + 1
    /\ i_r' = 0
    /\ i_pc' = "rule"
    /\ UNCHANGED i_others
    /\ UNCHANGED g_vars
    /\ UNCHANGED <<rule, i_e, ldaproles, roleset, declared, i_warnings,
                   i_error>>

\* Line 192: query_ldap raises UserError.
MappingQueryFails ==
    /\ i_pc = "mapping"
    /\ i_m < MaxMappings
    /\ i_m' = i_m + 1
    /\ i_pc' = "UserError"
    /\ i_error' = <<"query">>
    /\ UNCHANGED i_others
    /\ UNCHANGED g_vars
    /\ UNCHANGED <<i_ldap, i_entries, i_r, rule, i_e, ldaproles, roleset,
                   declared, i_warnings>>

\* Lines 194-196: no directory query, entries = [None].
MappingWithoutLdap ==
    /\ i_pc = "mapping"
    /\ i_m < MaxMappings
    /\ i_entries' = <<NoneEntry>>
    /\ i_ldap' = FALSE
    /\ i_m' = i_m + 1
    /\ i_r' = 0
    /\ i_pc' = "rule"
    /\ UNCHANGED i_others
    /\ UNCHANGED g_vars
    /\ UNCHANGED <<rule, i_e, ldaproles, roleset, declared, i_warnings,
                   i_error>>

\* Lines 134-136: the next rule of mapping['roles'] is entered.
RoleRuleBegin ==
    /\ i_pc = "rule"
    /\ i_r < MaxRules
    /\ Len(declared) < MaxDecls
    /\ with_grants => i_r = 0
    /\ \E next_rule \in IF with_grants THEN RuleChoicesWithGrants
                        ELSE IF i_ldap THEN RuleChoices
                        ELSE StaticRuleChoices :
           rule' = next_rule
    /\ i_r' = i_r + 1
    /\ i_e' = 1
    /\ i_pc' = IF i_entries = <<>> THEN "rule" ELSE "entry"
    /\ UNCHANGED i_others
    /\ UNCHANGED g_vars
    /\ UNCHANGED <<i_m, i_ldap, i_entries, ldaproles, roleset, declared,
                   i_warnings, i_error>>

\* Lines 134, 208-209: mapping['roles'] is exhausted; the grant rules of
\* the mapping are taken.
RoleRulesEnd ==
    /\ i_pc = "rule"
    /\ i_pc' = "grant"
    /\ rule' = NoRule
    /\ i_e' = 0
    /\ \E list \in IF ~with_grants THEN {<<>>}
                   ELSE IF i_ldap THEN GrantLists
                   ELSE StaticGrantLists :
           grant' = list
    /\ i_g' = 0
    /\ UNCHANGED i_others
    /\ UNCHANGED <<with_grants, grule, ldapacl, granted>>
    /\ UNCHANGED <<i_m, i_ldap, i_entries, i_r, ldaproles, roleset,
                   declared, i_warnings, i_error>>

CurEntry == i_entries[i_e]

\* What the generator of line 138 does for the current entry and rule.
Expansion == process_ldap_entry(CurEntry, rule)

\* The fold of lines 198-206 over the roles of the current entry.
Folded == FoldRoles(ldaproles, Expansion.roles)

AtEntry == i_pc = "entry" /\ i_e <= Len(i_entries)

\* Line 136: the next entry, or the end of the entries of this rule.
NextEntry ==
    /\ i_e' = i_e + 1
    /\ i_pc' = IF i_e < Len(i_entries) THEN "entry" ELSE "rule"

TakeRoles ==
    /\ ldaproles' = Folded.roles
    /\ declared' = declared \o Folded.yielded

\* Lines 138-139, 198-206: the entry expands without an error.
EntryExpands ==
    /\ AtEntry
    /\ ~Folded.conflict
    /\ Expansion.err = "none"
    /\ TakeRoles
    /\ NextEntry
    /\ UNCHANGED i_others
    /\ UNCHANGED g_vars
    /\ UNCHANGED <<i_m, i_ldap, i_entries, i_r, rule, roleset, i_warnings,
                   i_error>>

\* Lines 199-205: a yielded role conflicts with the one held.
EntryConflicts ==
    /\ AtEntry
    /\ Folded.conflict
    /\ TakeRoles
    /\ i_pc' = "UserError"
    /\ i_error' = <<"role", Folded.yielded[Len(Folded.yielded)].name>>
    /\ UNCHANGED i_others
    /\ UNCHANGED g_vars
    /\ UNCHANGED <<i_m, i_ldap, i_entries, i_r, rule, i_e, roleset,
                   i_warnings>>

\* Lines 140-143: RDNError under 'ignore'.
UnexpectedDnIgnored ==
    /\ AtEntry
    /\ ~Folded.conflict
    /\ Expansion.err = "RDNError"
    /\ EffectivePolicy(rule) = "ignore"
    /\ TakeRoles
    /\ NextEntry
    /\ UNCHANGED i_others
    /\ UNCHANGED g_vars
    /\ UNCHANGED <<i_m, i_ldap, i_entries, i_r, rule, roleset, i_warnings,
                   i_error>>

\* Lines 140-145: RDNError under 'warn'.
UnexpectedDnWarned ==
    /\ AtEntry
    /\ ~Folded.conflict
    /\ Expansion.err = "RDNError"
    /\ EffectivePolicy(rule) = "warn"
    /\ TakeRoles
    /\ i_warnings' = i_warnings + 1
    /\ NextEntry
    /\ UNCHANGED i_others
    /\ UNCHANGED g_vars
    /\ UNCHANGED <<i_m, i_ldap, i_entries, i_r, rule, roleset, i_error>>

\* Lines 140-147: RDNError under any other policy.
UnexpectedDnFails ==
    /\ AtEntry
    /\ ~Folded.conflict
    /\ Expansion.err = "RDNError"
    /\ EffectivePolicy(rule) \notin {"ignore", "warn"}
    /\ TakeRoles
    /\ i_pc' = "UserError"
    /\ i_error' = <<"dn", CurEntry.dn>>
    /\ UNCHANGED i_others
    /\ UNCHANGED g_vars
    /\ UNCHANGED <<i_m, i_ldap, i_entries, i_r, rule, i_e, roleset,
                   i_warnings>>

\* Lines 148-150: ValueError. The message reads entry[0], which raises
\* TypeError when the entry is None.
ExpansionFails ==
    /\ AtEntry
    /\ ~Folded.conflict
    /\ Expansion.err = "ValueError"
    /\ TakeRoles
    /\ IF CurEntry.none
       THEN i_pc' = "TypeError" /\ i_error' = <<>>
       ELSE i_pc' = "UserError" /\ i_error' = <<"entry", CurEntry.dn>>
    /\ UNCHANGED i_others
    /\ UNCHANGED g_vars
    /\ UNCHANGED <<i_m, i_ldap, i_entries, i_r, rule, i_e, roleset,
                   i_warnings>>

-----------------------------------------------------------------------------
(* apply_grant_rules, lines 152-181, and the aggregation of lines 208-212 *)

\* Grant.ALL_DATABASES, a value no list of database names equals.
ALL_DATABASES == <<"ALL_DATABASES">>

\* Lines 155-157
Databases(r) ==
    IF r.databases = AllWildcard THEN ALL_DATABASES ELSE r.databases

\* Lines 159-161
Schemas(r) ==
    IF r.schemas \in {"None", "__all__", "__any__"} THEN "None" ELSE r.schemas

\* Line 181
Grant(privilege, databases, schema_list, role) ==
    [privilege |-> privilege, databases |-> databases,
     schemas |-> schema_list, role |-> role]

\* Mutant of GrantsOfRoles: the first role the pattern does not match ends
\* the roles of the entry.
GrantsOfRoles_StopsAtMismatch(r, roles) ==
    LET kept(k) == r.role_match = "None" \/ fnmatch(Lower(roles[k]), r.role_match)
        stop == IF \A k \in 1..Len(roles) : kept(k) THEN Len(roles) + 1
                ELSE CHOOSE k \in 1..Len(roles) :
                         ~kept(k) /\ \A j \in 1..(k - 1) : kept(j)
    IN  [k \in 1..(stop - 1) |->
            Grant(r.privilege, Databases(r), Schemas(r), Lower(roles[k]))]

\* Lines 172-181: the grants of the roles one entry expands to. A role the
\* pattern does not match is passed over.
RECURSIVE GrantsOfRoles(_, _)
GrantsOfRoles(r, roles) ==
    IF roles = <<>> THEN <<>>
    ELSE LET role == Lower(roles[1])
         IN  IF r.role_match # "None" /\ ~fnmatch(role, r.role_match)
             THEN GrantsOfRoles(r, Tail(roles))
             ELSE <<Grant(r.privilege, Databases(r), Schemas(r), role)>>
                  \o GrantsOfRoles(r, Tail(roles))

\* Acl.add raises ValueError: the Acl holds a grant of the same privilege to
\* the same role with other databases or schemas.
AddFails(acl, g) ==
    \E held \in acl :
        /\ held.privilege = g.privilege
        /\ held.role = g.role
        /\ held # g

\* Lines 210-212 over the grants one entry yields: [acl, yielded, conflict],
\* the Acl, the grants taken from the generator, and whether the last of
\* them made Acl.add raise.
RECURSIVE AddGrants(_, _)
AddGrants(acl, yielded) ==
    IF yielded = <<>>
    THEN [acl |-> acl, yielded |-> <<>>, conflict |-> FALSE]
    ELSE IF AddFails(acl, yielded[1])
    THEN [acl |-> acl, yielded |-> <<yielded[1]>>, conflict |-> TRUE]
    ELSE LET rest == AddGrants(acl \cup {yielded[1]}, Tail(yielded))
         IN  [rest EXCEPT !.yielded = <<yielded[1]>> \o @]

\* Line 164: the next rule of the grant list is entered.
GrantRuleBegin ==
    /\ i_pc = "grant"
    /\ i_g < Len(grant)
    /\ grule' = grant[i_g + 1]
    /\ i_g' = i_g + 1
    /\ i_e' = 1
    /\ granted' = <<>>
    /\ i_pc' = IF i_entries = <<>> THEN "grant" ELSE "grant_entry"
    /\ UNCHANGED i_others
    /\ UNCHANGED <<with_grants, grant, ldapacl>>
    /\ UNCHANGED <<i_m, i_ldap, i_entries, i_r, rule, ldaproles, roleset,
                   declared, i_warnings, i_error>>

\* Lines 164, 210: the grant list is exhausted; the next mapping, if any.
GrantRulesEnd ==
    /\ i_pc = "grant"
    /\ i_g = Len(grant)
    /\ i_pc' = "mapping"
    /\ grant' = <<>>
    /\ i_g' = 0
    /\ grule' = NoRule
    /\ granted' = <<>>
    /\ UNCHANGED i_others
    /\ UNCHANGED <<with_grants, ldapacl>>
    /\ UNCHANGED <<i_m, i_ldap, i_entries, i_r, rule, i_e, ldaproles, roleset,
                   declared, i_warnings, i_error>>

AtGrantEntry == i_pc = "grant_entry" /\ i_e <= Len(i_entries)

\* Line 168: list(expand_attributes(entry, rule['roles']))
GrantExpansion == expand_attributes(CurEntry, grule.roles)

\* Lines 172-181 for the current entry, and their aggregation.
Added == AddGrants(ldapacl, GrantsOfRoles(grule, GrantExpansion.vals))

\* Line 166: the next entry, or the end of the entries of this rule.
NextGrantEntry ==
    /\ i_e' = i_e + 1
    /\ i_pc' = IF i_e < Len(i_entries) THEN "grant_entry" ELSE "grant"

TakeGrants ==
    /\ ldapacl' = Added.acl
    /\ granted' = Added.yielded

\* Lines 167-181, 210-212: the roles expand and their grants are added.
GrantEntryExpands ==
    /\ AtGrantEntry
    /\ GrantExpansion.err = "none"
    /\ ~Added.conflict
    /\ TakeGrants
    /\ NextGrantEntry
    /\ UNCHANGED i_others
    /\ UNCHANGED <<with_grants, grant, i_g, grule>>
    /\ UNCHANGED <<i_m, i_ldap, i_entries, i_r, rule, ldaproles, roleset,
                   declared, i_warnings, i_error>>

\* Line 212: Acl.add raises ValueError, which nothing catches.
GrantConflicts ==
    /\ AtGrantEntry
    /\ GrantExpansion.err = "none"
    /\ Added.conflict
    /\ TakeGrants
    /\ i_pc' = "ValueError"
    /\ i_error' = <<>>
    /\ UNCHANGED i_others
    /\ UNCHANGED <<with_grants, grant, i_g, grule>>
    /\ UNCHANGED <<i_m, i_ldap, i_entries, i_r, rule, i_e, ldaproles, roleset,
                   declared, i_warnings>>

\* Lines 167-171: the expansion raises ValueError, raised again as UserError
\* with the entry in its message.
GrantExpansionFails ==
    /\ AtGrantEntry
    /\ GrantExpansion.err = "ValueError"
    /\ i_pc' = "UserError"
    /\ i_error' = <<"entry", CurEntry.dn>>
    /\ UNCHANGED i_others
    /\ UNCHANGED g_vars
    /\ UNCHANGED <<i_m, i_ldap, i_entries, i_r, rule, i_e, ldaproles, roleset,
                   declared, i_warnings>>

\* Lines 167-169: the expansion raises RDNError, which line 169 does not
\* catch.
GrantUnexpectedDn ==
    /\ AtGrantEntry
    /\ GrantExpansion.err = "RDNError"
    /\ i_pc' = "RDNError"
    /\ i_error' = <<>>
    /\ UNCHANGED i_others
    /\ UNCHANGED g_vars
    /\ UNCHANGED <<i_m, i_ldap, i_entries, i_r, rule, i_e, ldaproles, roleset,
                   declared, i_warnings>>

\* Lines 214-220: the syncmap is exhausted; options are filled with their
\* defaults and the roles are returned as a RoleSet.
InspectReturn ==
    /\ i_pc = "mapping"
    /\ roleset' = {FillWithDefaults(role) : role \in ldaproles}
    /\ i_pc' = "done"
    /\ UNCHANGED i_others
    /\ UNCHANGED g_vars
    /\ UNCHANGED <<i_m, i_ldap, i_entries, i_r, rule, i_e, ldaproles,
                   declared, i_warnings, i_error>>

InspectNext ==
    \/ MappingWithLdap
    \/ MappingQueryFails
    \/ MappingWithoutLdap
    \/ RoleRuleBegin
    \/ RoleRulesEnd
    \/ EntryExpands
    \/ EntryConflicts
    \/ UnexpectedDnIgnored
    \/ UnexpectedDnWarned
    \/ UnexpectedDnFails
    \/ ExpansionFails
    \/ GrantRuleBegin
    \/ GrantRulesEnd
    \/ GrantEntryExpands
    \/ GrantConflicts
    \/ GrantExpansionFails
    \/ GrantUnexpectedDn
    \/ InspectReturn

SpecInspect == InspectInit /\ [][InspectNext]_vars

-----------------------------------------------------------------------------
(* inspect_ldap and the calls of query_ldap it makes. SpecInspect takes the *)
(* return value of query_ldap as given and SpecQuery follows the successive *)
(* calls; this specification has the behaviours of both.                    *)

SyncmapInit == InspectInit \/ QueryInit

SyncmapNext == InspectNext \/ QueryNext

SpecSyncmap == SyncmapInit /\ [][SyncmapNext]_vars

-----------------------------------------------------------------------------
(* The cluster, the inspector and the statement runner, as sync sees them *)

\* Bound: the number of successive calls of sync.
MaxRuns == 2

\* Role names: the session role pg, and px, al, ol.
Pg == <<"p", "g">>

Px == <<"p", "x">>

Al == <<"a", "l">>

Ol == <<"o", "l">>

\* Names in the order diff emits its statements.
NameOrder == <<Al, Ol, Pg, Px>>

\* A role of the cluster, or a desired role once membership is resolved.
PgRole(name, members, options) ==
    [name |-> name, members |-> members, options |-> options]

\* A desired role as inspect_ldap returns it.
LdapRole(name, members, parents, options) ==
    [name |-> name, members |-> members, parents |-> parents,
     options |-> options]

\* A grant as the grant rules yield it, and one of a database and schema.
LdapGrant(privilege, role) == [privilege |-> privilege, role |-> role]

PgGrant(privilege, dbname, schema, role) ==
    [privilege |-> privilege, dbname |-> dbname, schema |-> schema,
     role |-> role]

\* What inspect_ldap may return for the syncmap and the directory.
InspectAnswers ==
    [roles : {{},
              {LdapRole(Al, {}, {}, "login")},
              {LdapRole(Al, {}, {}, "login"),
               LdapRole(Px, {}, {Al}, "nologin")},
              {LdapRole(Pg, {}, {}, "login")},
              {LdapRole(Al, {}, {Ol}, "login")}},
     acl : {{}, {LdapGrant("ro", Al)}}]

\* The roles of the cluster before the first run; the session role exists.
ClusterChoices ==
    {{PgRole(Pg, {}, "login")},
     {PgRole(Pg, {}, "login"), PgRole(Al, {}, "login")},
     {PgRole(Pg, {}, "login"), PgRole(Al, {}, "nologin"),
      PgRole(Ol, {}, "login")}}

ClusterAclChoices ==
    {{}, {PgGrant("ro", "db", "public", Al)},
     {PgGrant("rw", "db", "public", Al)}}

BlacklistChoices == {<<>>, <<<<"p", "*">>>>, <<<<"a", "*">>>>, <<Pg>>}

\* inspector.fetch_me
Me == Pg

\* inspector.fetch_schemas: one database with one schema.
Topology == {<<"db", "public">>}

Names(roles) == {r.name : r \in roles}

\* inspector.fetch_roles: every role of the cluster is managed.
FetchRoles == {PgRole(r.name, r.members, r.options) : r \in cluster}

\* inspector.filter_roles: blacklisted roles are neither available nor
\* managed.
FilterRoles(roles) == {r \in roles : ~match(r.name, roles_blacklist)}

\* inspector.fetch_grants: the grants of the cluster to the given roles.
FetchGrants(roles) == {g \in cluster_acl : g.role \in Names(roles)}

\* RoleSet.resolve_membership raises ValueError: a parent is not declared.
ResolveFails(roles) ==
    \E r \in roles : \E parent \in r.parents : parent \notin Names(roles)

\* RoleSet.resolve_membership: each role becomes a member of its parents.
ResolveMembership(roles) ==
    {PgRole(r.name,
            r.members \cup {c.name : c \in {c \in roles : r.name \in c.parents}},
            r.options) : r \in roles}

RoleNamed(roles, name) == CHOOSE r \in roles : r.name = name

\* The statements of a set of names, in NameOrder.
RECURSIVE InOrder(_, _, _, _)
InOrder(op, names, roles, k) ==
    IF k > Len(NameOrder) THEN <<>>
    ELSE (IF NameOrder[k] \in names
          THEN <<[op |-> op, role |-> RoleNamed(roles, NameOrder[k])]>>
          ELSE <<>>)
         \o InOrder(op, names, roles, k + 1)

\* RoleSet.diff(other, available) on self: roles of other that self lacks
\* are created, roles of both that differ are altered, roles of self that
\* are available and that other lacks are dropped.
RoleDiff(self, other, available) ==
    LET creates == Names(other) \ Names(self)
        alters == {n \in Names(other) \cap Names(self) :
                       RoleNamed(other, n) # RoleNamed(self, n)}
        drops == (Names(self) \cap Names(available)) \ Names(other)
    IN  InOrder("create", creates, other, 1)
        \o InOrder("alter", alters, other, 1)
        \o InOrder("drop", drops, self, 1)

\* Acl.expandgrants: one grant per database and schema of the topology.
ExpandGrants(acl, topology) ==
    {PgGrant(g.privilege, t[1], t[2], g.role) : g \in acl, t \in topology}

\* A set of grants as a sequence.
RECURSIVE SetToSeq(_)
SetToSeq(set) ==
    IF set = {} THEN <<>>
    ELSE LET x == CHOOSE x \in set : TRUE
         IN  <<x>> \o SetToSeq(set \ {x})

\* Acl.diff(desired, privileges): grants and revokes of the configured
\* privileges only.
AclDiff(actual, desired, configured) ==
    LET grants == {g \in desired \ actual : g.privilege \in configured}
        revokes == {g \in actual \ desired : g.privilege \in configured}
    IN  [k \in 1..Cardinality(grants) |->
            [op |-> "grant", grant |-> SetToSeq(grants)[k]]]
        \o [k \in 1..Cardinality(revokes) |->
            [op |-> "revoke", grant |-> SetToSeq(revokes)[k]]]

\* The runner executes one role statement on the cluster.
ExecRole(roles, stmt) ==
    IF stmt.op = "drop"
    THEN {r \in roles : r.name # stmt.role.name}
    ELSE {r \in roles : r.name # stmt.role.name} \cup {stmt.role}

\* CREATE ROLE of a role that exists is refused by the cluster.
Refused(roles, stmt) ==
    stmt.op = "create" /\ stmt.role.name \in Names(roles)

ExecGrant(acl, stmt) ==
    IF stmt.op = "grant" THEN acl \cup {stmt.grant} ELSE acl \ {stmt.grant}

\* The grants left once roles are dropped: DROP ROLE comes with the drop of
\* what the role was granted.
GrantsOf(acl, roles) == {g \in acl : g.role \in Names(roles)}

\* GRANT to a role that does not exist is refused by the cluster.
GrantRefused(roles, stmt) ==
    stmt.op = "grant" /\ stmt.grant.role \notin Names(roles)

\* The number of grant statements the runner executes before one is refused.
RECURSIVE AcceptedGrants(_, _)
AcceptedGrants(roles, stmts) ==
    IF stmts = <<>> \/ GrantRefused(roles, stmts[1]) THEN 0
    ELSE 1 + AcceptedGrants(roles, Tail(stmts))

\* The runner executes statements in order.
RECURSIVE ExecRoles(_, _)
ExecRoles(roles, stmts) ==
    IF stmts = <<>> THEN roles
    ELSE ExecRoles(ExecRole(roles, stmts[1]), Tail(stmts))

RECURSIVE ExecGrants(_, _)
ExecGrants(acl, stmts) ==
    IF stmts = <<>> THEN acl
    ELSE ExecGrants(ExecGrant(acl, stmts[1]), Tail(stmts))

\* The number of statements the runner executes before one is refused.
RECURSIVE Accepted(_, _)
Accepted(roles, stmts) ==
    IF stmts = <<>> \/ Refused(roles, stmts[1]) THEN 0
    ELSE 1 + Accepted(ExecRole(roles, stmts[1]), Tail(stmts))

\* The cluster holds the desired state: every desired role with its members
\* and options, no other role but blacklisted ones, and, when privileges are
\* configured, exactly the desired grants of these privileges.
ClusterConverged(blacklist) ==
    /\ ~ResolveFails(inspect_answer.roles)
    /\ LET wanted == ResolveMembership(inspect_answer.roles)
       IN  /\ wanted \subseteq cluster
           /\ \A r \in cluster : r \in wanted \/ match(r.name, blacklist)
           /\ {g \in cluster_acl : g.privilege \in privileges}
                  = {g \in ExpandGrants(inspect_answer.acl, Topology) :
                         g.privilege \in privileges}

-----------------------------------------------------------------------------
(* sync, lines 238-289 *)

SyncLocals ==
    <<pgallroles, pgmanagedroles, s_ldaproles, s_ldapacl, schemas, pgacl,
      count, role_count>>

SyncConfig == <<privileges, inspect_answer>>

SyncInit ==
    /\ pc = "fetch_me"
    /\ run = 1
    /\ dry \in BOOLEAN
    /\ privileges \in {{}, {"ro"}}
    /\ inspect_answer \in InspectAnswers
    /\ cluster \in ClusterChoices
    /\ cluster_acl \in ClusterAclChoices
    /\ \A g \in cluster_acl : g.role \in Names(cluster)
    /\ roles_blacklist \in BlacklistChoices
    /\ super_columns = TRUE
    /\ pgallroles = {}
    /\ pgmanagedroles = {}
    /\ s_ldaproles = {}
    /\ s_ldapacl = {}
    /\ schemas = {}
    /\ pgacl = {}
    /\ count = 0
    /\ role_count = 0
    /\ trace = <<>>
    /\ executed = <<>>
    /\ failed_at = "none"
    /\ converged = FALSE
    /\ report = "none"
    /\ role_args = [schemas |-> {}, grants |-> {}]
    /\ QueryIdle
    /\ InspectIdle

Called(name) == trace' = Append(trace, name)

Raises_Continues(name) ==
    /\ Called(name)
    /\ failed_at' = name
    /\ pc' = "report"

\* An exception leaves sync: nothing after the raising call is run.
Raises(name) ==
    /\ Called(name)
    /\ failed_at' = name
    /\ pc' = "UserError"

WithMe_AlwaysAppends(blacklist) == Append(blacklist, Me)

\* Lines 241-242
WithMe(blacklist) ==
    IF ~match(Me, blacklist) THEN Append(blacklist, Me) ELSE blacklist

HasPrivileges_Always == TRUE

\* Line 264: if self.privileges
HasPrivileges == privileges # {}

\* Lines 240-246: the session role joins the blacklist unless a pattern
\* already matches it; a non superuser filters the super columns.
FetchMe ==
    /\ pc = "fetch_me"
    /\ Called("fetch_me")
    /\ roles_blacklist' = WithMe(roles_blacklist)
    /\ \E issuper \in BOOLEAN :
           super_columns' = (super_columns /\ issuper)
    /\ converged' = ClusterConverged(roles_blacklist')
    /\ pc' = "fetch_roles"
    /\ UNCHANGED s_others
    /\ UNCHANGED role_args
    /\ UNCHANGED <<run, dry, SyncConfig, cluster, cluster_acl, SyncLocals,
                   executed, failed_at, report>>

\* Lines 248-250: fetch_roles, then filter_roles.
FetchAndFilterRoles ==
    /\ pc = "fetch_roles"
    /\ trace' = trace \o <<"fetch_roles", "filter_roles">>
    /\ pgallroles' = FilterRoles(FetchRoles)
    /\ pgmanagedroles' = FilterRoles(FetchRoles)
    /\ pc' = "inspect_ldap"
    /\ UNCHANGED s_others
    /\ UNCHANGED role_args
    /\ UNCHANGED <<run, dry, SyncConfig, cluster, cluster_acl,
                   roles_blacklist, super_columns, s_ldaproles, s_ldapacl,
                   schemas, pgacl, count, role_count, executed, failed_at,
                   converged, report>>

\* Line 253: inspect_ldap returns the desired roles and grants.
InspectLdap ==
    /\ pc = "inspect_ldap"
    /\ Called("inspect_ldap")
    /\ s_ldaproles' = inspect_answer.roles
    /\ s_ldapacl' = inspect_answer.acl
    /\ pc' = "resolve_membership"
    /\ UNCHANGED s_others
    /\ UNCHANGED role_args
    /\ UNCHANGED <<run, dry, SyncConfig, cluster, cluster_acl,
                   roles_blacklist, super_columns, pgallroles, pgmanagedroles,
                   schemas, pgacl, count, role_count, executed, failed_at,
                   converged, report>>

\* Line 253: inspect_ldap raises UserError (directory query, rule expansion
\* or role conflict).
InspectLdapRaises ==
    /\ pc = "inspect_ldap"
    /\ Raises("inspect_ldap")
    /\ UNCHANGED s_others
    /\ UNCHANGED role_args
    /\ UNCHANGED <<run, dry, SyncConfig, cluster, cluster_acl,
                   roles_blacklist, super_columns, SyncLocals, executed,
                   converged, report>>

ResolveMembershipOk_GrantsFirst ==
    /\ pc = "resolve_membership"
    /\ ~ResolveFails(s_ldaproles)
    /\ Called("resolve_membership")
    /\ s_ldaproles' = ResolveMembership(s_ldaproles)
    /\ pc' = IF "fetch_schemas" \in Range(trace) \/ ~HasPrivileges
             THEN "diff_roles" ELSE "fetch_schemas"
    /\ UNCHANGED s_others
    /\ UNCHANGED role_args
    /\ UNCHANGED <<run, dry, SyncConfig, cluster, cluster_acl,
                   roles_blacklist, super_columns, pgallroles, pgmanagedroles,
                   s_ldapacl, schemas, pgacl, count, role_count, executed,
                   failed_at, converged, report>>

\* Lines 255-256: membership is resolved in place.
ResolveMembershipOk ==
    /\ pc = "resolve_membership"
    /\ ~ResolveFails(s_ldaproles)
    /\ Called("resolve_membership")
    /\ s_ldaproles' = ResolveMembership(s_ldaproles)
    /\ pc' = "diff_roles"
    /\ UNCHANGED s_others
    /\ UNCHANGED role_args
    /\ UNCHANGED <<run, dry, SyncConfig, cluster, cluster_acl,
                   roles_blacklist, super_columns, pgallroles, pgmanagedroles,
                   s_ldapacl, schemas, pgacl, count, role_count, executed,
                   failed_at, converged, report>>

\* Lines 255-258: resolve_membership raises ValueError, sync UserError.
ResolveMembershipRaises ==
    /\ pc = "resolve_membership"
    /\ ResolveFails(s_ldaproles)
    /\ Raises("resolve_membership")
    /\ UNCHANGED s_others
    /\ UNCHANGED role_args
    /\ UNCHANGED <<run, dry, SyncConfig, cluster, cluster_acl,
                   roles_blacklist, super_columns, SyncLocals, executed,
                   converged, report>>

RoleQueries_AfterInjection ==
    RoleDiff(pgmanagedroles \cup {r \in s_ldaproles :
                                      r.name \notin Names(pgmanagedroles)},
             s_ldaproles, pgallroles)

\* The statements of lines 261-263.
RoleQueries == RoleDiff(pgmanagedroles, s_ldaproles, pgallroles)

\* Lines 260-263: the role statements are run (counted only, in dry mode).
RunRoleQueries ==
    /\ pc = "diff_roles"
    /\ dry \/ Accepted(cluster, RoleQueries) = Len(RoleQueries)
    /\ Called("run_queries:roles")
    /\ count' = 0 + Len(RoleQueries)
    /\ role_count' = Len(RoleQueries)
    /\ IF dry
       THEN UNCHANGED <<cluster, cluster_acl, executed>>
       ELSE /\ cluster' = ExecRoles(cluster, RoleQueries)
            /\ cluster_acl' = GrantsOf(cluster_acl, cluster')
            /\ executed' = executed \o RoleQueries
    /\ pc' = IF HasPrivileges THEN "fetch_schemas" ELSE "report"
    /\ UNCHANGED s_others
    /\ UNCHANGED role_args
    /\ UNCHANGED <<run, dry, SyncConfig, roles_blacklist,
                   super_columns, pgallroles, pgmanagedroles, s_ldaproles,
                   s_ldapacl, schemas, pgacl, failed_at, converged, report>>

\* Lines 261-263: the runner raises at a statement; those before it stay
\* executed.
RunRoleQueriesRaises ==
    /\ pc = "diff_roles"
    /\ ~dry
    /\ \E done \in 0..(Len(RoleQueries) - 1) :
        /\ done <= Accepted(cluster, RoleQueries)
        /\ cluster' = ExecRoles(cluster, SubSeq(RoleQueries, 1, done))
        /\ cluster_acl' = GrantsOf(cluster_acl, cluster')
        /\ executed' = executed \o SubSeq(RoleQueries, 1, done)
    /\ Raises("run_queries:roles")
    /\ UNCHANGED s_others
    /\ UNCHANGED role_args
    /\ UNCHANGED <<run, dry, SyncConfig, roles_blacklist,
                   super_columns, SyncLocals, converged, report>>

\* RoleSet.update, line 267: the desired roles whose name is not yet in the
\* set are added.
RoleSetUpdate(self, other) ==
    self \cup {r \in other : r.name \notin Names(self)}

\* Lines 265-272: the desired roles join the managed ones, then
\* fetch_schemas.
FetchSchemas ==
    /\ pc = "fetch_schemas"
    /\ Called("fetch_schemas")
    /\ pgmanagedroles' = RoleSetUpdate(pgmanagedroles, s_ldaproles)
    /\ schemas' = Topology
    /\ pc' = "fetch_grants"
    /\ UNCHANGED s_others
    /\ role_args' = [role_args EXCEPT !.schemas = s_ldaproles]
    /\ UNCHANGED <<run, dry, SyncConfig, cluster, cluster_acl,
                   roles_blacklist, super_columns, pgallroles, s_ldaproles,
                   s_ldapacl, pgacl, count, role_count, executed, failed_at,
                   converged, report>>

\* Line 273
FetchGrantsOk ==
    /\ pc = "fetch_grants"
    /\ Called("fetch_grants")
    /\ pgacl' = FetchGrants(pgmanagedroles)
    /\ pc' = "postprocess_acl"
    /\ UNCHANGED s_others
    /\ role_args' = [role_args EXCEPT !.grants = pgmanagedroles]
    /\ UNCHANGED <<run, dry, SyncConfig, cluster, cluster_acl,
                   roles_blacklist, super_columns, pgallroles, pgmanagedroles,
                   s_ldaproles, s_ldapacl, schemas, count, role_count,
                   executed, failed_at, converged, report>>

\* Lines 274, 222-236
PostprocessAcl ==
    /\ pc = "postprocess_acl"
    /\ Called("postprocess_acl")
    /\ s_ldapacl' = ExpandGrants(s_ldapacl, schemas)
    /\ pc' = "diff_grants"
    /\ UNCHANGED s_others
    /\ UNCHANGED role_args
    /\ UNCHANGED <<run, dry, SyncConfig, cluster, cluster_acl,
                   roles_blacklist, super_columns, pgallroles, pgmanagedroles,
                   s_ldaproles, schemas, pgacl, count, role_count, executed,
                   failed_at, converged, report>>

\* Lines 272-274: fetch_schemas, fetch_grants or postprocess_acl raises.
GrantInspectionRaises ==
    /\ pc \in {"fetch_schemas", "fetch_grants", "postprocess_acl"}
    /\ Raises(pc)
    /\ UNCHANGED s_others
    /\ UNCHANGED role_args
    /\ UNCHANGED <<run, dry, SyncConfig, cluster, cluster_acl,
                   roles_blacklist, super_columns, SyncLocals, executed,
                   converged, report>>

\* The statements of lines 275-277.
GrantQueries == AclDiff(pgacl, s_ldapacl, privileges)

\* Lines 275-277: the grant statements are run (counted only, in dry mode).
RunGrantQueries ==
    /\ pc = "diff_grants"
    /\ dry \/ AcceptedGrants(cluster, GrantQueries) = Len(GrantQueries)
    /\ Called("run_queries:grants")
    /\ count' = count + Len(GrantQueries)
    /\ IF dry
       THEN UNCHANGED <<cluster_acl, executed>>
       ELSE /\ cluster_acl' = ExecGrants(cluster_acl, GrantQueries)
            /\ executed' = executed \o GrantQueries
    /\ pc' = "report"
    /\ UNCHANGED s_others
    /\ UNCHANGED role_args
    /\ UNCHANGED <<run, dry, SyncConfig, cluster, roles_blacklist,
                   super_columns, pgallroles, pgmanagedroles, s_ldaproles,
                   s_ldapacl, schemas, pgacl, role_count, failed_at,
                   converged, report>>

\* Lines 275-277: the runner raises at a grant statement.
RunGrantQueriesRaises ==
    /\ pc = "diff_grants"
    /\ ~dry
    /\ \E done \in 0..(Len(GrantQueries) - 1) :
        /\ done <= AcceptedGrants(cluster, GrantQueries)
        /\ cluster_acl' =
               ExecGrants(cluster_acl, SubSeq(GrantQueries, 1, done))
        /\ executed' = executed \o SubSeq(GrantQueries, 1, done)
    /\ Raises("run_queries:grants")
    /\ UNCHANGED s_others
    /\ UNCHANGED role_args
    /\ UNCHANGED <<run, dry, SyncConfig, cluster, roles_blacklist,
                   super_columns, SyncLocals, converged, report>>

\* Lines 281-289: the count is logged and returned.
Report ==
    /\ pc = "report"
    /\ report' = IF count # 0 THEN "Generated querie(s)." ELSE "Nothing to do."
    /\ pc' = "done"
    /\ UNCHANGED s_others
    /\ UNCHANGED role_args
    /\ UNCHANGED <<run, dry, SyncConfig, cluster, cluster_acl,
                   roles_blacklist, super_columns, SyncLocals, trace,
                   executed, failed_at, converged>>

\* sync is called again, with the same manager, inspector and syncmap.
SyncAgain ==
    /\ pc = "done"
    /\ run < MaxRuns
    /\ run' = run + 1
    /\ dry' \in BOOLEAN
    /\ pc' = "fetch_me"
    /\ pgallroles' = {}
    /\ pgmanagedroles' = {}
    /\ s_ldaproles' = {}
    /\ s_ldapacl' = {}
    /\ schemas' = {}
    /\ pgacl' = {}
    /\ count' = 0
    /\ role_count' = 0
    /\ trace' = <<>>
    /\ executed' = <<>>
    /\ converged' = FALSE
    /\ report' = "none"
    /\ UNCHANGED s_others
    /\ role_args' = [schemas |-> {}, grants |-> {}]
    /\ UNCHANGED <<SyncConfig, cluster, cluster_acl, roles_blacklist,
                   super_columns, failed_at>>

Next ==
    \/ FetchMe
    \/ FetchAndFilterRoles
    \/ InspectLdap
    \/ InspectLdapRaises
    \/ ResolveMembershipOk
    \/ ResolveMembershipRaises
    \/ RunRoleQueries
    \/ RunRoleQueriesRaises
    \/ FetchSchemas
    \/ FetchGrantsOk
    \/ PostprocessAcl
    \/ GrantInspectionRaises
    \/ RunGrantQueries
    \/ RunGrantQueriesRaises
    \/ Report
    \/ SyncAgain

Spec == SyncInit /\ [][Next]_vars

-----------------------------------------------------------------------------
(* Properties of apply_role_rules and inspect_ldap *)

\* The expansion of the current entry is about to raise RDNError.
RdnErrorPending ==
    AtEntry /\ ~Folded.conflict /\ Expansion.err = "RDNError"

\* Evaluation goes on with the next entry of the same rule: the roles
\* yielded before the error are kept, nothing else of the entry is.
SkipsToNextEntry ==
    /\ i_pc' = IF i_e < Len(i_entries) THEN "entry" ELSE "rule"
    /\ i_e' = i_e + 1
    /\ rule' = rule
    /\ i_entries' = i_entries
    /\ declared' = declared \o Expansion.roles

\* C4: an unexpected-DN error is handled by the on_unexpected_dn of the rule
\* being expanded, and by nothing else: under 'ignore' evaluation goes on
\* with the next entry and nothing is logged; under 'warn' it goes on and one
\* warning is logged; under any other value, and when the rule has no such
\* key, the run ends with a UserError.
C4_UnexpectedDnByOwnPolicy ==
    [][RdnErrorPending =>
        CASE rule.on_unexpected_dn = "ignore" ->
                SkipsToNextEntry /\ i_warnings' = i_warnings
          [] rule.on_unexpected_dn = "warn" ->
                SkipsToNextEntry /\ i_warnings' = i_warnings + 1
          [] OTHER ->
                /\ i_pc' = "UserError"
                /\ i_error' = <<"dn", CurEntry.dn>>
                /\ i_warnings' = i_warnings]_vars

\* Witness of C4: the second rule of a mapping, under 'ignore', went through
\* an entry with an unexpected DN without logging, after another rule had
\* logged a warning.
C4_Witness ==
    /\ i_pc = "rule"
    /\ i_r = 2
    /\ rule \in LdapRuleChoices
    /\ rule.on_unexpected_dn = "ignore"
    /\ Entry2 \in Range(i_entries)
    /\ i_warnings = 1

\* The declarations yielded so far for a name.
DeclaredAs(name) == {d \in Range(declared) : d.name = name}

UniqueNames(roles) ==
    \A r1, r2 \in roles : r1.name = r2.name => r1 = r2

\* C7: the aggregation keeps one role per lower-cased name. The dict never
\* holds two roles of a name; when inspect_ldap returns, the role set holds
\* exactly one role per declared name, all the declarations of a name had the
\* same options, and the role's members and parents are the unions of theirs;
\* as soon as two declarations of a name differ in their options the run has
\* ended with a UserError naming the role.
C7_OneRolePerName ==
    /\ UniqueNames(ldaproles)
    /\ i_pc = "done" =>
        /\ UniqueNames(roleset)
        /\ {r.name : r \in roleset} = {d.name : d \in Range(declared)}
        /\ \A r \in roleset :
            /\ r.name = Lower(r.name)
            /\ \A d \in DeclaredAs(r.name) :
                   r.options = DictUpdate(DefaultOptions, d.options)
            /\ r.members = UNION {d.members : d \in DeclaredAs(r.name)}
            /\ r.parents = UNION {d.parents : d \in DeclaredAs(r.name)}
    /\ \A d1, d2 \in Range(declared) :
           (d1.name = d2.name /\ d1.options # d2.options) =>
               (i_pc = "UserError" /\ i_error = <<"role", d1.name>>)

\* Witness of C7: inspect_ldap returned a role that two declarations of
\* different mappings, one of them in upper case, gave different members.
C7_Witness ==
    /\ i_pc = "done"
    /\ i_m = 2
    /\ \E r \in roleset :
        /\ r.name = <<"r", "d">>
        /\ r.members = {<<"a">>, <<"b">>}
        /\ r.parents = {<<"w", "r">>}
        /\ Cardinality(DeclaredAs(r.name)) >= 2

\* Witness of the conflict of C7.
C7_ConflictWitness ==
    /\ i_pc = "UserError"
    /\ i_error = <<"role", <<"r", "d">>>>

\* The declarations in another order: those at positions i and j exchanged.
Swap(seq, i, j) ==
    [k \in 1..Len(seq) |->
        IF k = i THEN seq[j] ELSE IF k = j THEN seq[i] ELSE seq[k]]

\* What the fold of lines 198-206 makes of a sequence of declarations: the
\* conflict error and the role it names, or the roles.
FoldOutcome(seq) ==
    LET folded == FoldRoles({}, seq)
    IN  IF folded.conflict
        THEN [conflict |-> TRUE, roles |-> {},
              name |-> folded.yielded[Len(folded.yielded)].name]
        ELSE [conflict |-> FALSE, roles |-> folded.roles, name |-> <<>>]

-----------------------------------------------------------------------------
(* Properties of query_ldap *)

\* The entries the mapping's search returned, referrals discarded.
Decoded == DecodeEntries(ldap_raw)

\* All the values of attribute member, over the decoded entries, in the order
\* query_ldap meets them.
RECURSIVE MemberOccurrences(_)
MemberOccurrences(es) ==
    IF es = <<>> THEN <<>>
    ELSE es[1].attrs.member \o MemberOccurrences(Tail(es))

NestedFails(v) == joins = "attrs" /\ ldap_nested[v] = "fail"

NestedEmpty(v) == joins = "attrs" /\ ldap_nested[v] = "empty"

\* The sub-attribute mapping a resolved value of member is paired with.
ResolvedAttrs(v) ==
    CASE joins = "nojoin"  -> {}
      [] joins = "noattrs" -> {<<"dn", <<v>>>>}
      [] joins = "attrs"   -> {<<"dn", <<v>>>>, <<"cn", <<CnOf(v)>>>>}

\* The values of a rebuilt attribute, without their sub-attributes.
ValuesOf(pairs) == [k \in 1..Len(pairs) |-> pairs[k][1]]

\* C5: the failure of a nested fetch is not fatal. query_ldap ends with a
\* UserError only when the mapping's own search failed, before any nested
\* search; when it returns, one warning was logged per failed nested fetch,
\* in order, nothing else was logged, every entry is returned, and in each
\* entry attribute member holds, in order, exactly the values whose nested
\* fetch did not fail (and returned an entry), each with the sub-attributes
\* it has when no fetch fails, while attribute dn is untouched.
C5_NestedFailureNotFatal ==
    /\ q_pc = "UserError" => (searches = <<>> /\ q_warnings = <<>>)
    /\ q_pc = "done" =>
        LET Failed(v) == NestedFails(v)
            Kept(v) == ~NestedFails(v) /\ ~NestedEmpty(v)
        IN  /\ q_warnings = SelectSeq(MemberOccurrences(Decoded), Failed)
            /\ Len(entries) = Len(Decoded)
            /\ \A e \in 1..Len(entries) :
                /\ entries[e].dn = Decoded[e].dn
                /\ entries[e].attrs.dn = <<<<Decoded[e].dn, {}>>>>
                /\ ValuesOf(entries[e].attrs.member)
                       = SelectSeq(Decoded[e].attrs.member, Kept)
                /\ \A k \in 1..Len(entries[e].attrs.member) :
                       entries[e].attrs.member[k][2]
                           = ResolvedAttrs(entries[e].attrs.member[k][1])

\* Witness of C5: query_ldap returned although a nested fetch failed, and an
\* entry holding a failing value followed by a resolvable one kept the latter.
C5_Witness ==
    /\ q_pc = "done"
    /\ q_warnings # <<>>
    /\ \E e \in 1..Len(entries) :
        /\ Len(Decoded[e].attrs.member) = 2
        /\ NestedFails(Decoded[e].attrs.member[1])
        /\ ValuesOf(entries[e].attrs.member) = <<Decoded[e].attrs.member[2]>>

\* C6: within one query_ldap call the nested search of an (attribute, value)
\* pair is issued at most once, whatever it answers.
C6_OneSearchPerPair ==
    \A key \in Range(searches) : Occurrences(searches, key) = 1

-----------------------------------------------------------------------------
(* Properties of sync *)

GrantPhaseCalls ==
    {"fetch_schemas", "fetch_grants", "postprocess_acl", "run_queries:grants"}

RunnerCalls == {"run_queries:roles", "run_queries:grants"}

\* The calls of the current run made before position k of the trace.
Before(k) == Range(SubSeq(trace, 1, k - 1))

\* C2: in every run, dry or real, fetch_schemas, fetch_grants, the ACL
\* expansion and the grant run_queries call happen only after the role
\* run_queries call has returned.
C2_RolesBeforeGrants ==
    /\ \A k \in 1..Len(trace) :
           trace[k] \in GrantPhaseCalls => "run_queries:roles" \in Before(k)
    /\ pc \in {"fetch_schemas", "fetch_grants", "postprocess_acl",
               "diff_grants"} => "run_queries:roles" \in Range(trace)

\* A dry run with privileges configured that counted role statements and went
\* through the whole grant phase.
C2_Witness ==
    /\ pc = "done"
    /\ dry
    /\ role_count > 0
    /\ GrantPhaseCalls \subseteq Range(trace)

\* C3: a failure aborts sync and nothing is rolled back: after a failure of
\* inspect_ldap or resolve_membership the runner was never invoked and no
\* statement was executed; after a failure in the grant phase the role
\* run_queries call has been made, the failing call is the last one, and the
\* roles of the cluster stay as the role statements left them; no step
\* follows a failure, and within a run executed statements are never removed.
C3_FailureAborts ==
    /\ [](failed_at # "none" =>
            /\ pc = "UserError"
            /\ trace[Len(trace)] = failed_at
            /\ Occurrences(trace, failed_at) = 1)
    /\ [](failed_at \in {"inspect_ldap", "resolve_membership"} =>
            /\ Range(trace) \cap RunnerCalls = {}
            /\ executed = <<>>)
    /\ [](failed_at \in GrantPhaseCalls =>
            /\ "run_queries:roles" \in Range(trace)
            /\ Len(executed) >= (IF dry THEN 0 ELSE role_count))
    /\ [][pc # "UserError"]_vars
    /\ [][pc' = "UserError" /\ failed_at' \in GrantPhaseCalls =>
              /\ cluster' = cluster
              /\ SubSeq(executed', 1, Len(executed)) = executed]_vars
    /\ [][run' = run =>
              /\ Len(executed') >= Len(executed)
              /\ SubSeq(executed', 1, Len(executed)) = executed]_vars

\* A real run whose role statements were executed and whose grant inspection
\* failed.
C3_Witness ==
    /\ pc = "UserError"
    /\ failed_at = "fetch_grants"
    /\ ~dry
    /\ role_count > 0
    /\ Len(executed) = role_count

\* A run that failed while inspecting the directory.
C3_WitnessInspect ==
    /\ pc = "UserError"
    /\ failed_at = "inspect_ldap"

\* C9: without privileges the grant phase is skipped whatever the grant rules
\* yield: no fetch_schemas, fetch_grants or ACL expansion, one runner call,
\* and the count is the number of role statements; with privileges the count
\* is the role count plus the grant count; a count of zero is reported as
\* nothing to do.
C9_GrantPhaseOnlyWithPrivileges ==
    /\ privileges = {} =>
           /\ Range(trace) \cap GrantPhaseCalls = {}
           /\ pc \in {"report", "done"} =>
                  /\ Occurrences(trace, "run_queries:roles") = 1
                  /\ count = Len(RoleQueries)
                  /\ count = role_count
    /\ privileges # {} /\ pc \in {"report", "done"} =>
           /\ Occurrences(trace, "run_queries:roles") = 1
           /\ Occurrences(trace, "run_queries:grants") = 1
           /\ count = role_count + Len(GrantQueries)
    /\ pc = "done" => (report = "Nothing to do.") = (count = 0)

\* A finished run without privileges, with grants yielded by the rules and
\* role statements counted.
C9_Witness ==
    /\ pc = "done"
    /\ privileges = {}
    /\ inspect_answer.acl # {}
    /\ count > 0

\* A finished run with privileges that counted role and grant statements.
C9_WitnessSum ==
    /\ pc = "done"
    /\ privileges # {}
    /\ role_count > 0
    /\ count > role_count

\* C10: whenever fetch_roles and filter_roles are invoked the session role
\* matches the blacklist, whatever the blacklist held before; the blacklist
\* changes only by fetch_me appending a session role it did not match, so a
\* later run leaves it as it is.
C10_SessionRoleBlacklisted ==
    /\ [](pc = "fetch_roles" \/ "fetch_roles" \in Range(trace) =>
            match(Me, roles_blacklist))
    /\ [][roles_blacklist' # roles_blacklist =>
              /\ pc = "fetch_me"
              /\ run = 1
              /\ ~match(Me, roles_blacklist)
              /\ roles_blacklist' = Append(roles_blacklist, Me)]_vars

\* The second run reaches fetch_roles with the blacklist the first run
\* extended.
C10_Witness ==
    /\ run = 2
    /\ pc = "fetch_roles"
    /\ roles_blacklist = <<<<"a", "*">>, Pg>>

\* C1: a second run of sync that starts on a converged cluster executes no
\* statement and returns a count of 0.
C1_SecondRunDoesNothing ==
    (pc = "done" /\ run >= 2 /\ converged) =>
        /\ count = 0
        /\ executed = <<>>

\* No desired role and no grantee of a desired grant matches the blacklist.
NoneBlacklisted ==
    /\ \A r \in inspect_answer.roles : ~match(r.name, roles_blacklist)
    /\ \A g \in inspect_answer.acl : ~match(g.role, roles_blacklist)

\* The second run on a converged cluster does nothing when the desired state
\* names no blacklisted role.
IdempotentOutsideBlacklist ==
    (pc = "done" /\ run >= 2 /\ converged /\ NoneBlacklisted) =>
        /\ count = 0
        /\ executed = <<>>

-----------------------------------------------------------------------------
(* Properties of the error handling of the rule engines *)

\* The generator of line 138 raises ValueError for the current entry.
ValueErrorPending ==
    /\ AtEntry
    /\ ~Folded.conflict
    /\ Expansion.err = "ValueError"

\* C11: in apply_role_rules an expansion failure other than an unexpected DN
\* ends the run with a UserError naming the offending entry, whatever the
\* policy of the rule and whether the entry comes from the directory or is
\* the synthetic entry of a mapping without a directory query.
C11_ExpansionFailureIsUserError ==
    [][ValueErrorPending =>
           /\ i_pc' = "UserError"
           /\ i_error' = <<"entry", CurEntry.dn>>]_vars

\* The expansion of line 168 raises for the current entry of a grant rule.
GrantExpansionErrorPending ==
    /\ AtGrantEntry
    /\ GrantExpansion.err # "none"

\* C12: in apply_grant_rules every failure of the expansion of a rule's roles
\* against an entry ends the run with a UserError: none is passed over and
\* none leaves as an error of another kind.
C12_GrantExpansionFailureIsUserError ==
    [][GrantExpansionErrorPending => i_pc' = "UserError"]_vars

\* Acl.add refuses a grant the current entry of a grant rule yields.
AclConflictPending ==
    /\ AtGrantEntry
    /\ GrantExpansion.err = "none"
    /\ Added.conflict

\* C13: a validation failure of the grants surfaces as UserError; for the
\* aggregation of inspect_ldap: when Acl.add refuses a conflicting grant the
\* run ends with a UserError, not with an error of another kind.
C13_AclConflictIsUserError ==
    [][AclConflictPending => i_pc' = "UserError"]_vars

-----------------------------------------------------------------------------
(* Properties of apply_grant_rules *)

\* The positions of the roles of the current entry that the pattern of the
\* current grant rule matches once lower-cased (all, without a pattern).
KeptRoles ==
    {k \in 1..Len(GrantExpansion.vals) :
        \/ grule.role_match = "None"
        \/ fnmatch(Lower(GrantExpansion.vals[k]), grule.role_match)}

\* The j-th smallest position of a set of positions.
Nth(positions, j) ==
    CHOOSE p \in positions : Cardinality({q \in positions : q < p}) = j - 1

\* The roles of the current entry expand and Acl.add takes their grants.
GrantsPending ==
    /\ AtGrantEntry
    /\ GrantExpansion.err = "none"
    /\ ~Added.conflict

\* C14: for every rule and entry the grants yielded are one grant per
\* expanded role, lower-cased, that matches the rule's role_match (every role
\* without role_match), in expansion order; a role that does not match raises
\* nothing and the evaluation goes on with the next entry or rule.
C14_GrantsOfMatchingRoles ==
    [][GrantsPending =>
           /\ Len(granted') = Cardinality(KeptRoles)
           /\ \A j \in 1..Len(granted') :
                  /\ granted'[j].role =
                         Lower(GrantExpansion.vals[Nth(KeptRoles, j)])
                  /\ granted'[j].privilege = grule.privilege
           /\ Range(granted') \subseteq ldapacl'
           /\ i_e' = i_e + 1
           /\ i_pc' \in {"grant_entry", "grant"}
           /\ i_error' = i_error]_vars

\* Roles App_ro and admin under role_match app_*: one grant, for app_ro.
C14_Witness ==
    /\ grule = StaticGrantA
    /\ i_pc = "grant"
    /\ granted = <<Grant("ro", ALL_DATABASES, "None",
                         <<"a", "p", "p", "_", "r", "o">>)>>

\* The first role of the entry does not match, the second one does.
C14_WitnessSkipsFirst ==
    /\ grule = LdapGrantE
    /\ i_pc = "grant"
    /\ granted = <<Grant("rw", ALL_DATABASES, "None", <<"r", "d">>)>>

-----------------------------------------------------------------------------
(* Properties of the short-circuit of query_ldap *)

\* A value of an attribute whose join has no attributes is to be resolved.
NoAttributesPending ==
    /\ HasValue
    /\ JoinOf(CurAttr) = "noattrs"

\* C15, as amended: when the join of an attribute has no attributes to
\* fetch, every value of the attribute is resolved without a nested search
\* and is paired with a sub-attribute mapping that holds dn = [value] only.
C15_ShortCircuitKeepsDn ==
    [][NoAttributesPending =>
           /\ searches' = searches
           /\ values_with_attrs' =
                  Append(values_with_attrs,
                         <<CurValue, {<<"dn", <<CurValue>>>>}>>)]_vars

\* C15, as stated: under a join without attributes every value is resolved
\* without a nested search and is paired with an empty sub-attribute mapping.
C15_ShortCircuitEmptyMapping ==
    [][NoAttributesPending =>
           /\ searches' = searches
           /\ values_with_attrs' =
                  Append(values_with_attrs, <<CurValue, {}>>)]_vars

\* query_ldap returned an entry whose member v1 was resolved under a join
\* without attributes, with no search issued.
C15_Witness ==
    /\ q_pc = "done"
    /\ joins = "noattrs"
    /\ searches = <<>>
    /\ \E e \in 1..Len(entries) :
           /\ entries[e].attrs.member # <<>>
           /\ entries[e].attrs.member[1] =
                  <<"cn=v1", {<<"dn", <<"cn=v1">>>>}>>

-----------------------------------------------------------------------------
(* Properties of the injection of the desired roles *)

\* The role run_queries call is made by this step.
RolesDiffed == pc = "diff_roles" /\ pc' # "diff_roles"

\* C16: with privileges configured, the desired roles join the managed ones
\* after the role statements were computed and run and before fetch_grants:
\* the role diff is computed against the filtered managed roles alone,
\* fetch_schemas is given the desired roles, and fetch_grants is given a
\* set holding every desired role and every filtered managed role.
C16_InjectionAfterRoleDiff ==
    /\ [][RolesDiffed =>
              /\ pgmanagedroles = FilterRoles(FetchRoles)
              /\ pc' # "UserError" =>
                     role_count' = Len(RoleDiff(FilterRoles(FetchRoles),
                                                s_ldaproles, pgallroles))]_vars
    /\ [][pgmanagedroles' # pgmanagedroles /\ pc \notin {"fetch_roles", "done"} =>
              /\ privileges # {}
              /\ "run_queries:roles" \in Range(trace)
              /\ "fetch_grants" \notin Range(trace')
              /\ pgmanagedroles \subseteq pgmanagedroles']_vars
    /\ []("fetch_schemas" \in Range(trace) /\ failed_at # "fetch_schemas" =>
              role_args.schemas = s_ldaproles)
    /\ []("fetch_grants" \in Range(trace) /\ failed_at # "fetch_grants" =>
              /\ Names(s_ldaproles) \subseteq Names(role_args.grants)
              /\ pgallroles \subseteq role_args.grants
              /\ role_args.grants = pgmanagedroles)

\* fetch_grants was called in a run whose role diff created a desired role
\* and kept a managed one.
C16_Witness ==
    /\ pc = "postprocess_acl"
    /\ role_count > 0
    /\ pgallroles # {}
    /\ \E r \in s_ldaproles : r.name \notin Names(pgallroles)
    /\ role_args.grants # pgallroles

-----------------------------------------------------------------------------
(* Properties of the result of query_ldap *)

\* The raw entries of the mapping's search that are no referrals.
NonReferrals == SelectSeq(ldap_raw, LAMBDA raw : raw.dn # "")

\* The resolution of value v of a joined attribute produces a sub-entry.
ProducesSubEntry(v) ==
    \/ joins = "noattrs"
    \/ joins = "attrs" /\ ldap_nested[v] = "ok"

\* C17: in the result of query_ldap no entry has an empty DN; an attribute
\* without a join keeps all its values, in order, each with an empty
\* mapping; a joined attribute keeps, in order, exactly the values whose
\* resolution produced a sub-entry, each with a mapping holding the
\* attributes of the first entry of its nested fetch; a value whose nested
\* fetch returns nothing is dropped like one whose fetch fails.
C17_ResultShape ==
    q_pc = "done" =>
        /\ Len(entries) = Len(NonReferrals)
        /\ \A e \in 1..Len(entries) :
            LET raw == NonReferrals[e]
                member == entries[e].attrs.member
            IN  /\ entries[e].dn = raw.dn
                /\ entries[e].dn # ""
                /\ entries[e].attrs.dn = <<<<raw.dn, {}>>>>
                /\ joins = "nojoin" =>
                       member = [k \in 1..Len(raw.member) |->
                                    <<raw.member[k], {}>>]
                /\ joins # "nojoin" =>
                    /\ ValuesOf(member) =
                           SelectSeq(raw.member, ProducesSubEntry)
                    /\ \A k \in 1..Len(member) :
                        /\ "dn" \in DictKeys(member[k][2])
                        /\ joins = "attrs" =>
                               NestedAttrs(NestedRaw(member[k][1])[1])
                                   \subseteq member[k][2]

\* The search answered a referral and an entry with members v1, whose nested
\* fetch returns nothing, and v2, whose nested fetch returns entries.
C17_Witness ==
    /\ q_pc = "done"
    /\ joins = "attrs"
    /\ Len(ldap_raw) = 2
    /\ ldap_raw[1].dn = ""
    /\ ldap_raw[2].member = <<"cn=v1", "cn=v2">>
    /\ ldap_nested["cn=v1"] = "empty"
    /\ Len(entries) = 1
    /\ ValuesOf(entries[1].attrs.member) = <<"cn=v2">>

-----------------------------------------------------------------------------
(* Properties of the order of inspect_ldap *)

\* An exception left inspect_ldap.
InspectFailed == i_pc \in {"UserError", "TypeError", "RDNError", "ValueError"}

\* The part of the processing of a mapping a position belongs to.
Phase(position) ==
    CASE position \in {"rule", "entry"} -> "roles"
      [] position \in {"grant", "grant_entry"} -> "grants"
      [] position \in {"UserError", "TypeError", "RDNError", "ValueError"}
           -> "failed"
      [] OTHER -> position

\* The order of the parts of the processing of the mappings.
PhaseOrder ==
    {<<"mapping", "roles">>, <<"roles", "grants">>, <<"grants", "mapping">>,
     <<"mapping", "done">>,
     <<"mapping", "failed">>, <<"roles", "failed">>, <<"grants", "failed">>}

\* A step of inspect_ldap follows the order of the mappings and of the
\* parts of each.
InspectInOrder ==
    /\ ~InspectFailed
    /\ i_m' \in {i_m, i_m + 1}
    /\ i_m' = i_m + 1 =>
        /\ i_pc = "mapping"
        /\ \/ i_pc' = "UserError" /\ i_error' = <<"query">>
           \/ i_pc' = "rule" /\ i_ldap'
           \/ i_pc' = "rule" /\ ~i_ldap' /\ i_entries' = <<NoneEntry>>
    /\ i_m' = i_m => i_entries' = i_entries /\ i_ldap' = i_ldap
    /\ Phase(i_pc') # Phase(i_pc) =>
        /\ <<Phase(i_pc), Phase(i_pc')>> \in PhaseOrder
        /\ Phase(i_pc') = "roles" => i_m' = i_m + 1
        /\ Phase(i_pc) = "grants" /\ Phase(i_pc') = "mapping" =>
               i_g = Len(grant)

\* A step of query_ldap: no step follows a failed call, and a call starts
\* only when the call before it returned.
QueryInOrder ==
    /\ q_pc # "UserError"
    /\ q_calls' # q_calls =>
        /\ q_pc = "done"
        /\ q_calls' = q_calls + 1
        /\ sub_attrs_cache' = {}

\* The values of attribute member in the entries of the current call.
QueriedValues ==
    UNION {Range(NonReferrals[e].member) : e \in 1..Len(NonReferrals)}

\* The join cache holds only what the current call resolved.
CacheOfThisQuery ==
    \A key \in DictKeys(sub_attrs_cache) :
        /\ key[1] = "member"
        /\ key[2] \in QueriedValues
        /\ joins = "attrs" => key \in Range(searches)

\* C18: inspect_ldap takes the mappings in order; a mapping is queried once,
\* or not at all and then has exactly one synthetic entry; its role rules
\* come before its grant rules and all of these before the next mapping;
\* nothing, so no search, follows a fatal failure; the join cache of one
\* call of query_ldap holds nothing of the call before it.
C18_MappingsInOrder ==
    /\ [][InspectInOrder /\ QueryInOrder]_vars
    /\ []CacheOfThisQuery

\* The grant rules of the second mapping, which has a directory query, are
\* applied after roles and grants were taken from the first.
C18_Witness ==
    /\ i_pc = "grant_entry"
    /\ i_m = 2
    /\ i_ldap
    /\ Len(i_entries) = 2
    /\ declared # <<>>
    /\ ldapacl # {}

\* The second call of query_ldap resolved a value by a search of its own.
C18_WitnessSecondQuery ==
    /\ q_calls = 2
    /\ q_pc = "done"
    /\ joins = "attrs"
    /\ sub_attrs_cache # {}

=============================================================================
